---------------------------- MODULE Spec2Model ----------------------------
(***************************************************************************)
(* Model of the three debug scripts of cc-taskboard-server:                *)
(*   src/debug/auth.py, src/debug/reg.py, src/debug/board.py.              *)
(* Each run is one process: it prompts with input(), builds a dict,        *)
(* serialises it with json.dumps, encodes the text as UTF-8, applies       *)
(* base64.b64encode and print()s the resulting bytes object.               *)
(*                                                                         *)
(* Text is a sequence of Unicode code points, a bytes object a sequence of *)
(* numbers 0..255.  Character codes are written in decimal with the        *)
(* character in a comment.                                                 *)
(***************************************************************************)
EXTENDS Integers, Sequences, FiniteSets

VARIABLES
  script,    \* which script this process runs: "auth", "reg" or "board"
  pc,        \* position in the script; "done" and "failed" are terminal
  token,     \* auth.py's token (first a str, then bytes); bytes elsewhere
  pending,   \* values of the dict display evaluated so far (operand stack)
  board_id,  \* board.py's board_id
  task,      \* the dict: a sequence of [key, value] items in insertion order
  s,         \* the text json.dumps returned
  prompts,   \* the prompts input() has issued, in order
  answers,   \* the lines input() has returned, in order
  stdout,    \* the characters print() has written to standard output
  exit,      \* exit status of the process, -1 while it runs
  err        \* the uncaught exception that ended the process, "" if none

vars ==
  <<script, pc, token, pending, board_id, task, s, prompts, answers, stdout,
    exit, err>>

----------------------------------------------------------------------------
(* Bounds of the model. *)

\* longest answer typed at the first prompt of auth.py
MaxTokenLen == 3
\* longest answer typed at the login and password prompts of auth.py
MaxLen == 2
\* longest answer typed at a prompt of reg.py
MaxRegLen == 1
\* longest answer typed at the prompt of board.py
MaxBoardLen == 3

\* Characters the answers are made of.  U+DC80 is what the surrogateescape
\* error handler of sys.stdin (the C and POSIX locales) makes of the
\* undecodable byte 0x80.
\*   first prompt of auth.py:  a  "  \  e-acute (U+00E9)  euro (U+20AC)  U+DC80
TokenAlphabet == {97, 34, 92, 233, 8364, 56448}
\*   login and password of auth.py:  a  "  \  U+DC80
Alphabet == {97, 34, 92, 56448}
\*   the prompts of reg.py:  a  "  U+DC80
RegAlphabet == {97, 34, 56448}

\* Characters an answer to board.py's prompt is made of:  4  2  -  space  _  x
BoardAlphabet == {52, 50, 45, 32, 95, 120}

StringsOver(A, n) == UNION {[1..k -> A] : k \in 0..n}

----------------------------------------------------------------------------
(* Values.  A field value is a str or an int; the two are kept apart by    *)
(* their type tag, as Python keeps "42" and 42 apart.                      *)

Str(x) == [type |-> "str", str |-> x, num |-> 0]
Int_(n) == [type |-> "int", str |-> <<>>, num |-> n]
Item(k, v) == [key |-> k, value |-> v]

NoToken == [type |-> "unset", val |-> <<>>]

\* The dict keys of the three scripts, as text.
K_login == <<108, 111, 103, 105, 110>>                  \* login
K_pass == <<112, 97, 115, 115>>                         \* pass
K_cc_key == <<99, 99, 95, 107, 101, 121>>               \* cc_key
K_board_id == <<98, 111, 97, 114, 100, 95, 105, 100>>   \* board_id

----------------------------------------------------------------------------
(* int(str): surrounding whitespace is stripped, one sign is allowed, the  *)
(* digits may be separated by single underscores.                          *)

IsDigit(c) == c \in 48..57
IsSpace(c) == c \in {32, 9, 10, 11, 12, 13}

RECURSIVE LStrip(_)
LStrip(x) == IF Len(x) > 0 /\ IsSpace(x[1]) THEN LStrip(Tail(x)) ELSE x

RECURSIVE RStrip(_)
RStrip(x) ==
  IF Len(x) > 0 /\ IsSpace(x[Len(x)]) THEN RStrip(SubSeq(x, 1, Len(x) - 1)) ELSE x

\* The digits of x, well-formed: starts and ends with a digit, and every
\* underscore stands between two digits.
DigitsOk(x) ==
  /\ Len(x) > 0
  /\ \A i \in 1..Len(x) :
       \/ IsDigit(x[i])
       \/ /\ x[i] = 95
          /\ i > 1 /\ i < Len(x)
          /\ IsDigit(x[i - 1]) /\ IsDigit(x[i + 1])

RECURSIVE DigitsValue(_, _)
DigitsValue(x, acc) ==
  IF Len(x) = 0 THEN acc
  ELSE IF x[1] = 95 THEN DigitsValue(Tail(x), acc)
  ELSE DigitsValue(Tail(x), acc * 10 + (x[1] - 48))

\* Mutant: a lenient parse that skips what is no digit and never fails.
PyIntLenient(x) == [ok |-> TRUE, num |-> DigitsValue(SelectSeq(x, IsDigit), 0)]

PyInt(x) ==
  LET t == RStrip(LStrip(x))
      signed == Len(t) > 0 /\ t[1] \in {43, 45}
      body == IF signed THEN Tail(t) ELSE t
  IN  IF DigitsOk(body)
      THEN [ok |-> TRUE,
            num |-> IF signed /\ t[1] = 45 THEN 0 - DigitsValue(body, 0)
                    ELSE DigitsValue(body, 0)]
      ELSE [ok |-> FALSE, num |-> 0]

----------------------------------------------------------------------------
(* json.dumps with its defaults: ensure_ascii, separators ", " and ": ",   *)
(* keys in the dict's own order.                                           *)

HexDigit(d) == IF d < 10 THEN 48 + d ELSE 87 + d         \* 0-9 a-f

\* \uXXXX
UEscape(n) ==
  <<92, 117, HexDigit(n \div 4096), HexDigit((n \div 256) % 16),
    HexDigit((n \div 16) % 16), HexDigit(n % 16)>>

\* Mutant: the backslash is left as it is.
JsonEscapeCharRawBackslash(c) ==
  IF c = 34 THEN <<92, 34>>
  ELSE IF c \in 32..126 THEN <<c>>
  ELSE UEscape(c)

JsonEscapeChar(c) ==
  CASE c = 34 -> <<92, 34>>          \* "  ->  \"
    [] c = 92 -> <<92, 92>>          \* \  ->  \\
    [] c = 10 -> <<92, 110>>         \* \n
    [] c = 13 -> <<92, 114>>         \* \r
    [] c = 9 -> <<92, 116>>          \* \t
    [] c = 8 -> <<92, 98>>           \* \b
    [] c = 12 -> <<92, 102>>         \* \f
    [] OTHER ->
         IF c \in 32..126 THEN <<c>>
         ELSE IF c < 65536 THEN UEscape(c)
         ELSE UEscape(55296 + ((c - 65536) \div 1024))
                \o UEscape(56320 + ((c - 65536) % 1024))

\* the escaped form of the characters lo..hi of x
RECURSIVE JsonEscapeRange(_, _, _)
JsonEscapeRange(x, lo, hi) ==
  IF lo > hi THEN <<>>
  ELSE IF lo = hi THEN JsonEscapeChar(x[lo])
  ELSE JsonEscapeRange(x, lo, (lo + hi) \div 2)
         \o JsonEscapeRange(x, (lo + hi) \div 2 + 1, hi)

JsonEscape(x) == JsonEscapeRange(x, 1, Len(x))

JsonString(x) == <<34>> \o JsonEscape(x) \o <<34>>

RECURSIVE NatRepr(_)
NatRepr(n) == IF n < 10 THEN <<48 + n>> ELSE NatRepr(n \div 10) \o <<48 + (n % 10)>>

IntRepr(n) == IF n < 0 THEN <<45>> \o NatRepr(0 - n) ELSE NatRepr(n)

\* Mutant: an integer is written between quotes, like a string.
JsonValueQuoted(v) ==
  IF v.type = "int" THEN JsonString(IntRepr(v.num)) ELSE JsonString(v.str)

JsonValue(v) == IF v.type = "int" THEN IntRepr(v.num) ELSE JsonString(v.str)

RECURSIVE JsonItems(_)
JsonItems(d) ==
  IF Len(d) = 0 THEN <<>>
  ELSE JsonString(d[1].key) \o <<58, 32>> \o JsonValue(d[1].value)
         \o (IF Len(d) > 1 THEN <<44, 32>> ELSE <<>>)
         \o JsonItems(Tail(d))

JsonDumps(d) == <<123>> \o JsonItems(d) \o <<125>>

----------------------------------------------------------------------------
(* bytes(text, 'utf-8') *)

IsSurrogate(c) == c \in 55296..57343

\* Mutant: Latin-1 instead of UTF-8 below U+0100.
UTF8EncodeCharLatin1(c) ==
  IF c < 256 THEN <<c>>
  ELSE IF c < 2048 THEN <<192 + (c \div 64), 128 + (c % 64)>>
  ELSE <<224 + (c \div 4096), 128 + ((c \div 64) % 64), 128 + (c % 64)>>

UTF8EncodeChar(c) ==
  IF c < 128 THEN <<c>>
  ELSE IF c < 2048 THEN <<192 + (c \div 64), 128 + (c % 64)>>
  ELSE IF c < 65536
    THEN <<224 + (c \div 4096), 128 + ((c \div 64) % 64), 128 + (c % 64)>>
  ELSE <<240 + (c \div 262144), 128 + ((c \div 4096) % 64),
         128 + ((c \div 64) % 64), 128 + (c % 64)>>

\* the bytes of the characters lo..hi of x
RECURSIVE UTF8Range(_, _, _)
UTF8Range(x, lo, hi) ==
  IF lo > hi THEN <<>>
  ELSE IF lo = hi THEN UTF8EncodeChar(x[lo])
  ELSE UTF8Range(x, lo, (lo + hi) \div 2) \o UTF8Range(x, (lo + hi) \div 2 + 1, hi)

UTF8Bytes(x) == UTF8Range(x, 1, Len(x))

\* UnicodeEncodeError ("surrogates not allowed") when ok is FALSE
UTF8Encode(x) ==
  IF \E i \in 1..Len(x) : IsSurrogate(x[i])
  THEN [ok |-> FALSE, bytes |-> <<>>]
  ELSE [ok |-> TRUE, bytes |-> UTF8Bytes(x)]

----------------------------------------------------------------------------
(* base64.b64encode: the standard alphabet A-Z a-z 0-9 + / with = padding  *)

B64Symbol(i) ==
  IF i < 26 THEN 65 + i
  ELSE IF i < 52 THEN 97 + (i - 26)
  ELSE IF i < 62 THEN 48 + (i - 52)
  ELSE IF i = 62 THEN 43
  ELSE 47

\* the four symbols of the g-th group of three bytes of b; the last group
\* may hold one or two bytes and is padded with =
B64Group(b, g) ==
  LET i == 3 * g - 2
  IN  IF i = Len(b) THEN
        <<B64Symbol(b[i] \div 4), B64Symbol((b[i] % 4) * 16), 61, 61>>
      ELSE IF i + 1 = Len(b) THEN
        <<B64Symbol(b[i] \div 4), B64Symbol((b[i] % 4) * 16 + (b[i + 1] \div 16)),
          B64Symbol((b[i + 1] % 16) * 4), 61>>
      ELSE
        <<B64Symbol(b[i] \div 4), B64Symbol((b[i] % 4) * 16 + (b[i + 1] \div 16)),
          B64Symbol((b[i + 1] % 16) * 4 + (b[i + 2] \div 64)),
          B64Symbol(b[i + 2] % 64)>>

\* the symbols of the groups lo..hi of b
RECURSIVE B64Range(_, _, _)
B64Range(b, lo, hi) ==
  IF lo > hi THEN <<>>
  ELSE IF lo = hi THEN B64Group(b, lo)
  ELSE B64Range(b, lo, (lo + hi) \div 2) \o B64Range(b, (lo + hi) \div 2 + 1, hi)

B64Encode(b) == B64Range(b, 1, (Len(b) + 2) \div 3)

----------------------------------------------------------------------------
(* print(b): the repr of a bytes object, b'...', and a newline.  The       *)
(* base64 alphabet holds no quote, backslash or unprintable character, so  *)
(* the repr quotes with ' and escapes nothing.                             *)

BytesRepr(b) == <<98, 39>> \o b \o <<39>>

PrintLine(b) == BytesRepr(b) \o <<10>>

----------------------------------------------------------------------------
(* The answers input() can return at each prompt.  input() either returns  *)
(* the line typed, without its newline, or raises EOFError when standard   *)
(* input is closed.                                                        *)

TokenAnswers == StringsOver(TokenAlphabet, MaxTokenLen)
AuthAnswers == StringsOver(Alphabet, MaxLen)
RegAnswers == StringsOver(RegAlphabet, MaxRegLen)
BoardAnswers == StringsOver(BoardAlphabet, MaxBoardLen)

\* Mutant: the test is always true (as "if token is not None" would be).
IsPassthroughAlways(t) == TRUE

\* auth.py line 8: if token != ""
IsPassthrough(t) == t # <<>>

\* An uncaught exception: the interpreter prints a traceback to standard
\* error and exits with status 1.
Raise(e) ==
  /\ pc' = "failed"
  /\ exit' = 1
  /\ err' = e

Init ==
  /\ script \in {"auth", "reg", "board"}
  /\ pc = CASE script = "auth" -> "read_token"
            [] script = "reg" -> "read_login"
            [] script = "board" -> "read_board_id"
  /\ token = NoToken
  /\ pending = <<>>
  /\ board_id = Int_(0)
  /\ task = <<>>
  /\ s = <<>>
  /\ prompts = <<>>
  /\ answers = <<>>
  /\ stdout = <<>>
  /\ exit = -1
  /\ err = ""

----------------------------------------------------------------------------
(* auth.py *)

\* line 6: token = input(...)
AuthReadToken ==
  /\ script = "auth" /\ pc = "read_token"
  /\ prompts' = Append(prompts, "token")
  /\ \/ \E a \in TokenAnswers :
          /\ answers' = Append(answers, a)
          /\ token' = [type |-> "str", val |-> a]
          /\ pc' = "branch"
          /\ UNCHANGED <<exit, err>>
     \/ Raise("EOFError") /\ UNCHANGED <<token, answers>>
  /\ UNCHANGED <<script, pending, board_id, task, s, stdout>>

\* line 8: if token != "": ... else: ...
AuthBranch ==
  /\ script = "auth" /\ pc = "branch"
  /\ pc' = IF IsPassthrough(token.val) THEN "encode_token" ELSE "read_login"
  /\ UNCHANGED <<script, token, pending, board_id, task, s, prompts, answers,
                 stdout, exit, err>>

\* line 9: token = base64.b64encode(bytes(token, 'utf-8'))
AuthEncodeToken ==
  /\ script = "auth" /\ pc = "encode_token"
  /\ \E b \in {UTF8Encode(token.val)} :
       IF b.ok
       THEN /\ token' = [type |-> "bytes", val |-> B64Encode(b.bytes)]
            /\ pc' = "print"
            /\ UNCHANGED <<exit, err>>
       ELSE Raise("UnicodeEncodeError") /\ UNCHANGED token
  /\ UNCHANGED <<script, pending, board_id, task, s, prompts, answers, stdout>>

\* line 12: the value of "login" in the dict display
AuthReadLogin ==
  /\ script = "auth" /\ pc = "read_login"
  /\ prompts' = Append(prompts, "login")
  /\ \/ \E a \in AuthAnswers :
          /\ answers' = Append(answers, a)
          /\ pending' = Append(pending, Item(K_login, Str(a)))
          /\ pc' = "read_pass"
          /\ UNCHANGED <<exit, err>>
     \/ Raise("EOFError") /\ UNCHANGED <<pending, answers>>
  /\ UNCHANGED <<script, token, board_id, task, s, stdout>>

\* lines 11-14: the value of "pass", then the dict is built and bound to task
AuthReadPass ==
  /\ script = "auth" /\ pc = "read_pass"
  /\ prompts' = Append(prompts, "pass")
  /\ \/ \E a \in AuthAnswers :
          /\ answers' = Append(answers, a)
          /\ task' = Append(pending, Item(K_pass, Str(a)))
          /\ pending' = <<>>
          /\ pc' = "dumps"
          /\ UNCHANGED <<exit, err>>
     \/ Raise("EOFError") /\ UNCHANGED <<task, pending, answers>>
  /\ UNCHANGED <<script, token, board_id, s, stdout>>

----------------------------------------------------------------------------
(* reg.py *)

\* line 7: the value of "login" in the dict display
RegReadLogin ==
  /\ script = "reg" /\ pc = "read_login"
  /\ prompts' = Append(prompts, "login")
  /\ \/ \E a \in RegAnswers :
          /\ answers' = Append(answers, a)
          /\ pending' = Append(pending, Item(K_login, Str(a)))
          /\ pc' = "read_pass"
          /\ UNCHANGED <<exit, err>>
     \/ Raise("EOFError") /\ UNCHANGED <<pending, answers>>
  /\ UNCHANGED <<script, token, board_id, task, s, stdout>>

\* Mutant: the dict is built after the password, the key is never asked for.
RegReadPassSkipsKey ==
  /\ script = "reg" /\ pc = "read_pass"
  /\ prompts' = Append(prompts, "pass")
  /\ \/ \E a \in RegAnswers :
          /\ answers' = Append(answers, a)
          /\ task' = Append(pending, Item(K_pass, Str(a)))
          /\ pending' = <<>>
          /\ pc' = "dumps"
          /\ UNCHANGED <<exit, err>>
     \/ Raise("EOFError") /\ UNCHANGED <<task, pending, answers>>
  /\ UNCHANGED <<script, token, board_id, s, stdout>>

\* Mutant: the length the prompt asks for is enforced.
RegReadPassChecked ==
  /\ script = "reg" /\ pc = "read_pass"
  /\ prompts' = Append(prompts, "pass")
  /\ \/ \E a \in RegAnswers :
          /\ answers' = Append(answers, a)
          /\ IF Len(a) >= 8
             THEN /\ pending' = Append(pending, Item(K_pass, Str(a)))
                  /\ pc' = "read_cc_key"
                  /\ UNCHANGED <<exit, err>>
             ELSE Raise("ValueError") /\ UNCHANGED pending
     \/ Raise("EOFError") /\ UNCHANGED <<pending, answers>>
  /\ UNCHANGED <<script, token, board_id, task, s, stdout>>

\* line 8: the value of "pass"; the prompt asks for at least 8 characters
\* and the code checks nothing
RegReadPass ==
  /\ script = "reg" /\ pc = "read_pass"
  /\ prompts' = Append(prompts, "pass")
  /\ \/ \E a \in RegAnswers :
          /\ answers' = Append(answers, a)
          /\ pending' = Append(pending, Item(K_pass, Str(a)))
          /\ pc' = "read_cc_key"
          /\ UNCHANGED <<exit, err>>
     \/ Raise("EOFError") /\ UNCHANGED <<pending, answers>>
  /\ UNCHANGED <<script, token, board_id, task, s, stdout>>

\* Mutant: cc_key is put first in the dict.
RegReadKeyFirst ==
  /\ script = "reg" /\ pc = "read_cc_key"
  /\ prompts' = Append(prompts, "cc_key")
  /\ \/ \E a \in RegAnswers :
          /\ answers' = Append(answers, a)
          /\ task' = <<Item(K_cc_key, Str(a))>> \o pending
          /\ pending' = <<>>
          /\ pc' = "dumps"
          /\ UNCHANGED <<exit, err>>
     \/ Raise("EOFError") /\ UNCHANGED <<task, pending, answers>>
  /\ UNCHANGED <<script, token, board_id, s, stdout>>

\* lines 6-10: the value of "cc_key", then the dict is built and bound to task
RegReadKey ==
  /\ script = "reg" /\ pc = "read_cc_key"
  /\ prompts' = Append(prompts, "cc_key")
  /\ \/ \E a \in RegAnswers :
          /\ answers' = Append(answers, a)
          /\ task' = Append(pending, Item(K_cc_key, Str(a)))
          /\ pending' = <<>>
          /\ pc' = "dumps"
          /\ UNCHANGED <<exit, err>>
     \/ Raise("EOFError") /\ UNCHANGED <<task, pending, answers>>
  /\ UNCHANGED <<script, token, board_id, s, stdout>>

----------------------------------------------------------------------------
(* board.py *)

\* Mutant: a ValueError is caught and the prompt is issued again.
BoardReadIdRetry ==
  /\ script = "board" /\ pc = "read_board_id"
  /\ prompts' = Append(prompts, "board_id")
  /\ \/ \E a \in BoardAnswers :
          /\ IF PyInt(a).ok
             THEN /\ answers' = Append(answers, a)
                  /\ board_id' = Int_(PyInt(a).num)
                  /\ pc' = "build_task"
             ELSE UNCHANGED <<answers, board_id, pc>>
          /\ UNCHANGED <<exit, err>>
     \/ Raise("EOFError") /\ UNCHANGED <<board_id, answers>>
  /\ UNCHANGED <<script, token, pending, task, s, stdout>>

\* line 6: board_id = int(input(...))
BoardReadId ==
  /\ script = "board" /\ pc = "read_board_id"
  /\ prompts' = Append(prompts, "board_id")
  /\ \/ \E a \in BoardAnswers :
          /\ answers' = Append(answers, a)
          /\ LET n == PyInt(a)
             IN  IF n.ok
                 THEN /\ board_id' = Int_(n.num)
                      /\ pc' = "build_task"
                      /\ UNCHANGED <<exit, err>>
                 ELSE Raise("ValueError") /\ UNCHANGED board_id
     \/ Raise("EOFError") /\ UNCHANGED <<board_id, answers>>
  /\ UNCHANGED <<script, token, pending, task, s, stdout>>

\* lines 8-10: task = {"board_id": board_id}
BoardBuildTask ==
  /\ script = "board" /\ pc = "build_task"
  /\ task' = <<Item(K_board_id, board_id)>>
  /\ pc' = "dumps"
  /\ UNCHANGED <<script, token, pending, board_id, s, prompts, answers,
                 stdout, exit, err>>

----------------------------------------------------------------------------
(* The tail the three scripts share. *)

\* auth.py line 15, reg.py line 12, board.py line 11: s = json.dumps(task)
Serialize ==
  /\ pc = "dumps"
  /\ s' = JsonDumps(task)
  /\ pc' = "encode"
  /\ UNCHANGED <<script, token, pending, board_id, task, prompts, answers,
                 stdout, exit, err>>

\* auth.py line 16, reg.py line 13, board.py line 12:
\* token = base64.b64encode(bytes(s, 'utf-8'))
Encode ==
  /\ pc = "encode"
  /\ \E b \in {UTF8Encode(s)} :
       IF b.ok
       THEN /\ token' = [type |-> "bytes", val |-> B64Encode(b.bytes)]
            /\ pc' = "print"
            /\ UNCHANGED <<exit, err>>
       ELSE Raise("UnicodeEncodeError") /\ UNCHANGED token
  /\ UNCHANGED <<script, pending, board_id, task, s, prompts, answers, stdout>>

\* auth.py line 18, reg.py line 15, board.py line 14: print(token), after
\* which the script ends and the interpreter exits with status 0
PrintToken ==
  /\ pc = "print"
  /\ stdout' = stdout \o PrintLine(token.val)
  /\ pc' = "done"
  /\ exit' = 0
  /\ UNCHANGED <<script, token, pending, board_id, task, s, prompts, answers, err>>

Next ==
  \/ AuthReadToken \/ AuthBranch \/ AuthEncodeToken
  \/ AuthReadLogin \/ AuthReadPass
  \/ RegReadLogin \/ RegReadPass \/ RegReadKey
  \/ BoardReadId \/ BoardBuildTask
  \/ Serialize \/ Encode \/ PrintToken

Spec == Init /\ [][Next]_vars

----------------------------------------------------------------------------
(* The consumer's side of a token: base64.b64decode, bytes.decode('utf-8') *)
(* and json.loads.  The scripts never call them; the round-trip properties *)
(* below are stated with them.                                             *)

B64Index(c) ==
  IF c \in 65..90 THEN c - 65
  ELSE IF c \in 97..122 THEN c - 97 + 26
  ELSE IF c \in 48..57 THEN c - 48 + 52
  ELSE IF c = 43 THEN 62
  ELSE IF c = 47 THEN 63
  ELSE -1

IsB64Char(c) == B64Index(c) >= 0 \/ c = 61

B64Bad == [ok |-> FALSE, bytes |-> <<>>]

\* the q-th group of four characters of x is well formed: = stands only at
\* the end of the last group
B64QuadOk(x, q) ==
  LET i == 4 * q - 3
  IN  /\ x[i] # 61 /\ x[i + 1] # 61
      /\ x[i + 2] = 61 => x[i + 3] = 61
      /\ x[i + 3] = 61 => i + 3 = Len(x)

\* the one, two or three bytes of the q-th group of four characters of x
B64Quad(x, q) ==
  LET i == 4 * q - 3
      a == B64Index(x[i])
      b == B64Index(x[i + 1])
      c == B64Index(x[i + 2])
      d == B64Index(x[i + 3])
  IN  IF x[i + 2] = 61 THEN <<a * 4 + (b \div 16)>>
      ELSE IF x[i + 3] = 61 THEN <<a * 4 + (b \div 16), (b % 16) * 16 + (c \div 4)>>
      ELSE <<a * 4 + (b \div 16), (b % 16) * 16 + (c \div 4), (c % 4) * 64 + d>>

\* the bytes of the groups lo..hi of x
RECURSIVE B64Quads(_, _, _)
B64Quads(x, lo, hi) ==
  IF lo > hi THEN <<>>
  ELSE IF lo = hi THEN B64Quad(x, lo)
  ELSE B64Quads(x, lo, (lo + hi) \div 2) \o B64Quads(x, (lo + hi) \div 2 + 1, hi)

\* b64decode without validate: characters outside the alphabet are dropped.
\* A = anywhere but at the end is taken as an error here; b64encode
\* never produces one.
B64Decode(x) ==
  LET y == SelectSeq(x, IsB64Char)
  IN  IF Len(y) % 4 = 0 /\ \A q \in 1..(Len(y) \div 4) : B64QuadOk(y, q)
      THEN [ok |-> TRUE, bytes |-> B64Quads(y, 1, Len(y) \div 4)]
      ELSE B64Bad

IsCont(b) == b \in 128..191

TextBad == [ok |-> FALSE, str |-> <<>>]

\* the number of bytes of the character whose first byte is c, 0 if c
\* starts none
UTF8Width(c) ==
  IF c < 128 THEN 1
  ELSE IF c \in 194..223 THEN 2
  ELSE IF c \in 224..239 THEN 3
  ELSE IF c \in 240..244 THEN 4
  ELSE 0

\* the code point of the character that starts at byte i of b
UTF8Char(b, i) ==
  CASE UTF8Width(b[i]) = 1 -> b[i]
    [] UTF8Width(b[i]) = 2 -> (b[i] - 192) * 64 + (b[i + 1] - 128)
    [] UTF8Width(b[i]) = 3 ->
         (b[i] - 224) * 4096 + (b[i + 1] - 128) * 64 + (b[i + 2] - 128)
    [] UTF8Width(b[i]) = 4 ->
         (b[i] - 240) * 262144 + (b[i + 1] - 128) * 4096 + (b[i + 2] - 128) * 64
           + (b[i + 3] - 128)

\* a well-formed character starts at byte i of b, and a new one after it
UTF8CharOk(b, i) ==
  LET n == UTF8Width(b[i])
  IN  /\ n > 0 /\ i + n - 1 <= Len(b)
      /\ \A j \in (i + 1)..(i + n - 1) : IsCont(b[j])
      /\ i + n <= Len(b) => ~IsCont(b[i + n])
      /\ ~IsSurrogate(UTF8Char(b, i)) /\ UTF8Char(b, i) <= 1114111
      /\ n = 3 => UTF8Char(b, i) >= 2048
      /\ n = 4 => UTF8Char(b, i) >= 65536

\* the characters that start within the bytes lo..hi of b
RECURSIVE UTF8Chars(_, _, _)
UTF8Chars(b, lo, hi) ==
  IF lo > hi THEN <<>>
  ELSE IF lo = hi THEN (IF IsCont(b[lo]) THEN <<>> ELSE <<UTF8Char(b, lo)>>)
  ELSE UTF8Chars(b, lo, (lo + hi) \div 2) \o UTF8Chars(b, (lo + hi) \div 2 + 1, hi)

\* strict decoding: every byte is the start of a well-formed character or
\* one of its continuation bytes
UTF8Decode(b) ==
  IF /\ Len(b) > 0 => ~IsCont(b[1])
     /\ \A i \in 1..Len(b) : IsCont(b[i]) \/ UTF8CharOk(b, i)
  THEN [ok |-> TRUE, str |-> UTF8Chars(b, 1, Len(b))]
  ELSE TextBad

IsHex(c) == c \in 48..57 \/ c \in 97..102 \/ c \in 65..70
HexValue(c) == IF c \in 48..57 THEN c - 48 ELSE IF c \in 97..102 THEN c - 87 ELSE c - 55

IsHex4(x, i) == i + 3 <= Len(x) /\ \A j \in i..(i + 3) : IsHex(x[j])
Hex4(x, i) ==
  HexValue(x[i]) * 4096 + HexValue(x[i + 1]) * 256 + HexValue(x[i + 2]) * 16
    + HexValue(x[i + 3])

\* the character a one-letter escape stands for, -1 if it is none
Unescape(c) ==
  CASE c = 34 -> 34 [] c = 92 -> 92 [] c = 47 -> 47 [] c = 98 -> 8
    [] c = 102 -> 12 [] c = 110 -> 10 [] c = 114 -> 13 [] c = 116 -> 9
    [] OTHER -> -1

ScanBad == [ok |-> FALSE, str |-> <<>>, end |-> 0]
StepBad == [ok |-> FALSE, char |-> 0, next |-> 0]

\* the escape sequence at the backslash x[i]: the character it stands for
\* and the index after it; \uD8xx\uDCxx is one character
ScanEscape(x, i) ==
  IF i + 1 > Len(x) THEN StepBad
  ELSE IF x[i + 1] # 117 THEN
    IF Unescape(x[i + 1]) < 0 THEN StepBad
    ELSE [ok |-> TRUE, char |-> Unescape(x[i + 1]), next |-> i + 2]
  ELSE IF ~IsHex4(x, i + 2) THEN StepBad
  ELSE IF /\ Hex4(x, i + 2) \in 55296..56319
          /\ i + 7 <= Len(x) /\ x[i + 6] = 92 /\ x[i + 7] = 117
          /\ IsHex4(x, i + 8)
          /\ Hex4(x, i + 8) \in 56320..57343
    THEN [ok |-> TRUE,
          char |-> 65536 + (Hex4(x, i + 2) - 55296) * 1024 + (Hex4(x, i + 8) - 56320),
          next |-> i + 12]
  ELSE [ok |-> TRUE, char |-> Hex4(x, i + 2), next |-> i + 6]

\* one character of a string literal, x[i] being no quote
ScanStep(x, i) ==
  IF x[i] = 92 THEN ScanEscape(x, i)
  ELSE IF x[i] < 32 THEN StepBad
  ELSE [ok |-> TRUE, char |-> x[i], next |-> i + 1]

\* json's scanstring in strict mode, from the character after the opening
\* quote; end is the index after the closing quote
RECURSIVE ScanString(_, _, _)
ScanString(x, i, acc) ==
  CASE i > Len(x) -> ScanBad
    [] i <= Len(x) /\ x[i] = 34 -> [ok |-> TRUE, str |-> acc, end |-> i + 1]
    [] i <= Len(x) /\ x[i] # 34 /\ ~ScanStep(x, i).ok -> ScanBad
    [] OTHER -> ScanString(x, ScanStep(x, i).next, Append(acc, ScanStep(x, i).char))

RECURSIVE SkipWs(_, _)
SkipWs(x, i) ==
  IF i <= Len(x) /\ x[i] \in {32, 9, 10, 13} THEN SkipWs(x, i + 1) ELSE i

RECURSIVE ScanDigits(_, _, _)
ScanDigits(x, i, acc) ==
  IF i <= Len(x) /\ IsDigit(x[i]) THEN ScanDigits(x, i + 1, acc * 10 + (x[i] - 48))
  ELSE [num |-> acc, end |-> i]

ValueBad == [ok |-> FALSE, value |-> Str(<<>>), end |-> 0]

\* a JSON integer: -?(0|[1-9][0-9]*), not followed by a fraction or exponent
ScanInt(x, i) ==
  LET neg == i <= Len(x) /\ x[i] = 45
      j == IF neg THEN i + 1 ELSE i
  IN  IF j > Len(x) \/ ~IsDigit(x[j]) THEN ValueBad
      ELSE LET d == IF x[j] = 48 THEN [num |-> 0, end |-> j + 1] ELSE ScanDigits(x, j, 0)
           IN  IF d.end <= Len(x) /\ x[d.end] \in {46, 101, 69} THEN ValueBad
               ELSE [ok |-> TRUE,
                     value |-> Int_(IF neg THEN 0 - d.num ELSE d.num),
                     end |-> d.end]

\* a member's value: a string or an integer (the only values the scripts emit)
ScanValue(x, i) ==
  IF i > Len(x) THEN ValueBad
  ELSE IF x[i] = 34 THEN
    LET r == ScanString(x, i + 1, <<>>)
    IN  IF r.ok THEN [ok |-> TRUE, value |-> Str(r.str), end |-> r.end] ELSE ValueBad
  ELSE ScanInt(x, i)

\* dict[key] = value: a repeated key keeps its place and takes the new value
DictSet(d, k, v) ==
  IF \E j \in 1..Len(d) : d[j].key = k
  THEN [j \in 1..Len(d) |-> IF d[j].key = k THEN Item(k, v) ELSE d[j]]
  ELSE Append(d, Item(k, v))

LoadBad == [ok |-> FALSE, dict |-> <<>>]

\* the members of an object, from the opening quote of a key
RECURSIVE ScanMembers(_, _, _)
ScanMembers(x, i, acc) ==
  IF i > Len(x) \/ x[i] # 34 THEN LoadBad
  ELSE
    LET k == ScanString(x, i + 1, <<>>)
        colon == SkipWs(x, k.end)
    IN  IF ~k.ok \/ colon > Len(x) \/ x[colon] # 58 THEN LoadBad
        ELSE
          LET v == ScanValue(x, SkipWs(x, colon + 1))
              after == SkipWs(x, v.end)
              d == DictSet(acc, k.str, v.value)
          IN  IF ~v.ok \/ after > Len(x) THEN LoadBad
              ELSE IF x[after] = 125
                THEN IF SkipWs(x, after + 1) = Len(x) + 1
                     THEN [ok |-> TRUE, dict |-> d] ELSE LoadBad
              ELSE IF x[after] = 44 THEN ScanMembers(x, SkipWs(x, after + 1), d)
              ELSE LoadBad

\* json.loads of a document whose top level is an object
JsonLoads(x) ==
  LET i == SkipWs(x, 1)
  IN  IF i > Len(x) \/ x[i] # 123 THEN LoadBad
      ELSE LET j == SkipWs(x, i + 1)
           IN  IF j <= Len(x) /\ x[j] = 125
               THEN IF SkipWs(x, j + 1) = Len(x) + 1
                    THEN [ok |-> TRUE, dict |-> <<>>] ELSE LoadBad
               ELSE ScanMembers(x, j, <<>>)

\* the text a token stands for
DecodeText(tok) ==
  LET b == B64Decode(tok)
  IN  IF b.ok THEN UTF8Decode(b.bytes) ELSE TextBad

\* the record a token stands for
DecodeRecord(tok) ==
  LET u == DecodeText(tok)
  IN  IF u.ok THEN JsonLoads(u.str) ELSE LoadBad

----------------------------------------------------------------------------
(* Vocabulary of the properties. *)

Terminated == pc \in {"done", "failed"}

\* the run took auth.py's passthrough branch / its login branch
PassthroughRun == script = "auth" /\ Len(answers) >= 1 /\ answers[1] # <<>> /\ pc # "branch"
LoginRun == script = "auth" /\ Len(answers) >= 1 /\ answers[1] = <<>> /\ pc # "branch"

\* the positions after the dict has been bound to task
AfterBuild == pc \in {"dumps", "encode", "print", "done"} /\ ~PassthroughRun

IsPrefix(a, b) == Len(a) <= Len(b) /\ SubSeq(b, 1, Len(a)) = a
NoRepeat(q) == \A i, j \in 1..Len(q) : i # j => q[i] # q[j]
NumLines(out) == Cardinality({i \in 1..Len(out) : out[i] = 10})
Keys(d) == [i \in 1..Len(d) |-> d[i].key]

\* the prompts a complete run of each variant issues, in order
FullPrompts ==
  CASE script = "reg" -> <<"login", "pass", "cc_key">>
    [] script = "board" -> <<"board_id">>
    [] script = "auth" ->
         IF Len(answers) >= 1 /\ answers[1] # <<>> THEN <<"token">>
         ELSE <<"token", "login", "pass">>

\* the field names of each structured variant, in order
Schema ==
  CASE script = "reg" -> <<K_login, K_pass, K_cc_key>>
    [] script = "board" -> <<K_board_id>>
    [] script = "auth" -> <<K_login, K_pass>>

\* the answers that are field values: all of them, but for auth.py's first
FieldAnswers == IF script = "auth" THEN Tail(answers) ELSE answers

\* text that is certainly no number: it holds no digit, or a character
\* that is no digit, sign, underscore or blank
NonNumeric(x) ==
  \/ \A i \in 1..Len(x) : ~IsDigit(x[i])
  \/ \E i \in 1..Len(x) : ~IsDigit(x[i]) /\ x[i] \notin {43, 45, 95, 32, 9}

A42 == <<52, 50>>                                                       \* 42
S42 == <<123, 34, 98, 111, 97, 114, 100, 95, 105, 100, 34, 58, 32, 52, 50, 125>>
                                                           \* {"board_id": 42}

----------------------------------------------------------------------------
(* C1. Round trip of the structured variants: once auth.py (login branch), *)
(* reg.py or board.py has produced its token, reversing base64 and parsing *)
(* the JSON text gives back the record that was built, value for value and *)
(* in the same key order, and the string values are the answers typed.     *)
C1_RoundTrip ==
  (AfterBuild /\ pc \in {"print", "done"}) =>
    /\ token.type = "bytes"
    /\ DecodeRecord(token.val) = [ok |-> TRUE, dict |-> task]
    /\ script # "board" =>
         /\ Len(task) = Len(FieldAnswers)
         /\ \A i \in 1..Len(task) : task[i].value = Str(FieldAnswers[i])

\* reg.py finished with a quote, a letter and a surrogate typed
C1_Witness ==
  /\ script = "reg" /\ pc = "done"
  /\ answers = <<<<34>>, <<97>>, <<56448>>>>
  /\ DecodeRecord(token.val).dict = task

C3_OutputIsExactlyToken ==
  pc = "done" =>
    /\ stdout = token.val \o <<10>>
    /\ \A i \in 1..(Len(stdout) - 1) : IsB64Char(stdout[i])

(* C4. board.py: an answer that is no number ends the process with a       *)
(* non-zero exit status and nothing on standard output; whenever int()     *)
(* fails, print is never reached.                                          *)
C4_NonNumericFails ==
  /\ (script = "board" /\ Len(answers) = 1 /\ NonNumeric(answers[1])) =>
       /\ pc = "failed" /\ err = "ValueError"
       /\ exit # 0 /\ exit # -1
       /\ stdout = <<>> /\ token = NoToken
  /\ err = "ValueError" =>
       /\ script = "board" /\ pc = "failed"
       /\ exit # 0 /\ exit # -1
       /\ stdout = <<>> /\ token = NoToken /\ task = <<>>

\* board.py failed on the answer  x
C4_Witness ==
  /\ script = "board" /\ answers = <<<<120>>>>
  /\ pc = "failed" /\ err = "ValueError" /\ exit = 1

(* C5. board.py coerces the answer to an integer before it builds the      *)
(* record: the value of board_id is an int, it is serialised unquoted and  *)
(* the decoded token gives the int back; the answer 42 gives               *)
(* {"board_id": 42}.                                                       *)
C5_BoardIdIsInteger ==
  script = "board" =>
    /\ AfterBuild =>
         /\ Len(task) = 1 /\ task[1].key = K_board_id
         /\ task[1].value.type = "int"
         /\ answers[1] = A42 => task = <<Item(K_board_id, Int_(42))>>
    /\ pc \in {"encode", "print", "done"} =>
         /\ \A i \in 1..Len(s) : s[i] = 34 => i <= Len(K_board_id) + 3
         /\ answers[1] = A42 => s = S42
    /\ pc \in {"print", "done"} =>
         /\ DecodeRecord(token.val).ok
         /\ DecodeRecord(token.val).dict[1].value.type = "int"
         /\ DecodeRecord(token.val).dict[1].value = task[1].value
         /\ answers[1] = A42 =>
              DecodeRecord(token.val).dict = <<Item(K_board_id, Int_(42))>>

\* board.py finished on the answer  42
C5_Witness ==
  /\ script = "board" /\ pc = "done" /\ answers = <<A42>>
  /\ task[1].value = Int_(42) /\ s = S42

(* C6. Fixed schema: the record of auth.py's login branch has the fields   *)
(* login, pass; that of reg.py login, pass, cc_key; that of board.py       *)
(* board_id; in that order, whatever was typed, and the serialisation      *)
(* keeps the order.                                                        *)
C6_FixedSchema ==
  AfterBuild =>
    /\ Keys(task) = Schema
    /\ pc \in {"encode", "print", "done"} =>
         /\ JsonLoads(s).ok
         /\ Keys(JsonLoads(s).dict) = Schema

\* reg.py has serialised a record whose values are all empty
C6_Witness ==
  /\ script = "reg" /\ pc = "encode"
  /\ answers = <<<<>>, <<>>, <<>>>>
  /\ Keys(JsonLoads(s).dict) = <<K_login, K_pass, K_cc_key>>

(* C7. A run is one linear sequence with two ends: the token printed once  *)
(* and exit status 0, or an uncaught exception and a non-zero exit status  *)
(* with nothing printed.  Until then the process can always take its next  *)
(* step; after it nothing happens; no prompt is ever repeated.             *)
C7_TwoTerminalStates ==
  /\ pc = "done" =>
       /\ exit = 0 /\ err = ""
       /\ token.type = "bytes" /\ NumLines(stdout) = 1
  /\ pc = "failed" =>
       /\ exit # 0 /\ exit # -1
       /\ err \in {"ValueError", "EOFError", "UnicodeEncodeError"}
       /\ stdout = <<>>
  /\ ~Terminated => (exit = -1 /\ err = "" /\ stdout = <<>> /\ ENABLED Next)
  /\ Terminated => ~ENABLED Next
  /\ NoRepeat(prompts)
  /\ NumLines(stdout) <= 1

\* reg.py failed at its third prompt: standard input was closed
C7_Witness ==
  /\ script = "reg" /\ pc = "failed" /\ err = "EOFError"
  /\ Len(prompts) = 3 /\ Len(answers) = 2 /\ stdout = <<>>

(* C8. Prompt order: the prompts issued are always an initial part of the  *)
(* variant's fixed list, each at most once, and json.dumps, the encoding   *)
(* and print run only after every field of the run has been answered.      *)
C8_PromptOrder ==
  /\ IsPrefix(prompts, FullPrompts)
  /\ NoRepeat(prompts)
  /\ Len(answers) <= Len(prompts) /\ Len(prompts) <= Len(answers) + 1
  /\ (pc \in {"dumps", "encode", "print", "done"} \/ s # <<>> \/ stdout # <<>>
        \/ token.type = "bytes") =>
       /\ prompts = FullPrompts
       /\ Len(answers) = Len(FullPrompts)

\* auth.py, login branch, about to serialise after its three prompts
C8_Witness ==
  /\ script = "auth" /\ pc = "dumps"
  /\ prompts = <<"token", "login", "pass">>
  /\ Len(answers) = 3

(* C9. Variant selection in auth.py: a non-empty first answer means no     *)
(* further prompt and no record; an empty one means the login and password *)
(* prompts and a {login, pass} record; the token comes from exactly one of *)
(* the two, and the empty string is never the passthrough payload.         *)
C9_VariantSelection ==
  /\ PassthroughRun =>
       /\ pc \in {"encode_token", "print", "done", "failed"}
       /\ prompts = <<"token">>
       /\ task = <<>> /\ pending = <<>> /\ s = <<>>
       /\ token.type = "bytes" => DecodeText(token.val).str # <<>>
  /\ LoginRun =>
       /\ pc \in {"read_login", "read_pass", "dumps", "encode", "print", "done", "failed"}
       /\ pc \in {"print", "done"} =>
            /\ prompts = <<"token", "login", "pass">>
            /\ Keys(task) = <<K_login, K_pass>>
            /\ token.type = "bytes" /\ DecodeRecord(token.val).ok
  /\ (script = "auth" /\ pc = "encode_token") => answers[1] # <<>>
  /\ (script = "auth" /\ pc \in {"read_login", "read_pass", "dumps", "encode"}) =>
       answers[1] = <<>>

\* auth.py finished through the login branch with both answers empty
C9_Witness ==
  /\ script = "auth" /\ pc = "done"
  /\ answers = <<<<>>, <<>>, <<>>>>
  /\ Keys(task) = <<K_login, K_pass>>

\* a run of reg.py or of auth.py's login branch
StringFieldsRun == script = "reg" \/ LoginRun

\* every answer the string prompts got is taken as it is
C10_StringsAccepted ==
  StringFieldsRun =>
    /\ err \in {"", "EOFError"}
    /\ err = "EOFError" => Len(prompts) = Len(answers) + 1
    /\ Len(answers) = Len(FullPrompts) =>
         /\ pc \in {"dumps", "encode", "print", "done"}
         /\ Len(task) = Len(FieldAnswers)
         /\ \A i \in 1..Len(task) : task[i].value = Str(FieldAnswers[i])
         /\ pc = "done" => exit = 0

(* C10, as claimed: reg.py and auth.py's login branch take any string      *)
(* answers as they are and end with the token printed and exit status 0;   *)
(* only the integer coercion of board.py can reject an input value.        *)
C10_OnlyIntRejects ==
  /\ C10_StringsAccepted
  /\ err \notin {"", "EOFError"} => (script = "board" /\ err = "ValueError")

(* C10, amended: reg.py and auth.py's login branch take any string answers *)
(* as they are; an input value is rejected only by the integer coercion of *)
(* board.py or by the UTF-8 encoding of auth.py's passthrough token, which *)
(* fails on a surrogate code point.                                        *)
C10_NoValidation ==
  /\ C10_StringsAccepted
  /\ err \notin {"", "EOFError"} =>
       \/ script = "board" /\ err = "ValueError"
       \/ /\ PassthroughRun /\ err = "UnicodeEncodeError"
          /\ \E i \in 1..Len(answers[1]) : IsSurrogate(answers[1][i])

\* reg.py finished with a one-character password and an empty login
C10_Witness ==
  /\ script = "reg" /\ pc = "done" /\ exit = 0
  /\ answers[1] = <<>> /\ Len(answers[2]) = 1
  /\ task[2].value = Str(answers[2])

============================================================================
